---- MODULE Spec2Model ----
(***************************************************************************)
(* A model of rename_videos.py: the batch renamer that gives media files   *)
(* the name YYYYMMDD-HHMMSS-<device>.<ext>.                                 *)
(*                                                                         *)
(* File names and metadata strings are sequences of one-character strings, *)
(* so that splitting, lower-casing, pattern matching, sorting, parsing and *)
(* formatting are computed the way the script computes them.               *)
(***************************************************************************)
EXTENDS Integers, Sequences, FiniteSets, TLC

VARIABLES
    fs,        \* the directory: file name -> the entry stored under that name
    fs0,       \* the directory as it was when the current run started
    args,      \* the parsed command line of the run
    pc,        \* where main is: "start", "loop", "done" or "crashed"
    listing,   \* sorted(os.listdir(dirpath)), taken once at the start of the loop
    idx,       \* position of the loop in listing
    renamed,   \* main's counter
    skipped,   \* main's counter
    out,       \* the lines printed so far, one record per line
    probed,    \* the external utility invocations made so far: <<tool, name>>
    plans,     \* the renames decided in this run: source, destination, the
               \* file, and the names that existed when it was decided
    handled,   \* the entries the loop has passed in this run, each with
               \* whether it was a regular file of a recognised extension
               \* when its turn came
    run,       \* number of the current invocation of the script
    call       \* an isolated call of one function: its input and its result

vars == <<fs, fs0, args, pc, listing, idx, renamed, skipped, out, probed, plans,
          handled, run, call>>

----------------------------------------------------------------------------
(* Bounds of the model.                                                    *)

MaxFiles == 3

MaxRuns == 2

MaxStreams == 2

----------------------------------------------------------------------------
(* Characters and strings.  A character is a one-character string; the     *)
(* control characters and the characters outside ASCII that the model      *)
(* knows are written by code point: "U+0009" tab, "U+000A" line feed,      *)
(* "U+00C9" and "U+00E9" E acute (capital, small), "U+0130" capital I with *)
(* dot, "U+0131" dotless i, "U+0307" combining dot above, "U+0663"         *)
(* Arabic-Indic digit three, "U+212A" Kelvin sign, "U+FF12" fullwidth      *)
(* digit two.                                                              *)

Digits == <<"0", "1", "2", "3", "4", "5", "6", "7", "8", "9">>

UpperAlpha == <<"A", "B", "C", "D", "E", "F", "G", "H", "I", "J", "K", "L", "M",
                "N", "O", "P", "Q", "R", "S", "T", "U", "V", "W", "X", "Y", "Z">>

LowerAlpha == <<"a", "b", "c", "d", "e", "f", "g", "h", "i", "j", "k", "l", "m",
                "n", "o", "p", "q", "r", "s", "t", "u", "v", "w", "x", "y", "z">>

\* The characters of the model in code point order (what sorted() compares).
CodePoints ==
    <<"U+0009", "U+000A", " ", "+", ",", "-", ".", "/">> \o Digits \o <<":">>
        \o UpperAlpha \o <<"_">> \o LowerAlpha
        \o <<"U+00C9", "U+00E9", "U+0130", "U+0131", "U+0307", "U+0663",
              "U+212A", "U+FF12">>

Ord(c) == CHOOSE i \in 1..Len(CodePoints) : CodePoints[i] = c

\* the characters 0 to 9
AsciiDigit == {Digits[i] : i \in 1..Len(Digits)}

\* \d of a str pattern: any decimal digit of Unicode
IsDigit(c) == c \in AsciiDigit \/ c \in {"U+0663", "U+FF12"}

\* int(c) for a decimal digit c
DigitValue(c) ==
    IF c = "U+0663" THEN 3
    ELSE IF c = "U+FF12" THEN 2
    ELSE (CHOOSE i \in 1..Len(Digits) : Digits[i] = c) - 1

\* c.isspace(), for the characters str.strip() removes
IsSpace(c) == c \in {" ", "U+0009", "U+000A"}

\* c is encoded in one byte of UTF-8
IsAscii(c) == Ord(c) <= Ord("z")

\* str.lower() of one character: the characters it becomes
LowerChar(c) ==
    IF \E i \in 1..26 : UpperAlpha[i] = c
    THEN <<LowerAlpha[CHOOSE i \in 1..26 : UpperAlpha[i] = c]>>
    ELSE IF c = "U+00C9" THEN <<"U+00E9">>
    ELSE IF c = "U+212A" THEN <<"k">>
    ELSE IF c = "U+0130" THEN <<"i", "U+0307">>
    ELSE <<c>>

\* str.lower()
RECURSIVE Lower(_)
Lower(s) == IF s = <<>> THEN <<>> ELSE LowerChar(Head(s)) \o Lower(Tail(s))

\* a literal letter or sign lit of a pattern matches c; under re.IGNORECASE
\* the letter i also matches U+0130 and U+0131, and k the Kelvin sign
CharMatches(c, lit, ignorecase) ==
    \/ c = lit
    \/ /\ ignorecase
       /\ \/ LowerChar(c) = <<lit>>
          \/ lit = "i" /\ c \in {"U+0130", "U+0131"}

\* sub in s
Contains(s, sub) ==
    \E i \in 0..(Len(s) - Len(sub)) : SubSeq(s, i + 1, i + Len(sub)) = sub

\* a < b for str
StrLess(a, b) ==
    \E k \in 1..(Len(b)) :
        /\ k <= Len(a) + 1
        /\ \A j \in 1..(k - 1) : a[j] = b[j]
        /\ \/ k = Len(a) + 1
           \/ k <= Len(a) /\ Ord(a[k]) < Ord(b[k])

\* sorted(names)
RECURSIVE sorted(_)
sorted(S) ==
    IF S = {} THEN <<>>
    ELSE LET m == CHOOSE x \in S : \A y \in S : x = y \/ StrLess(x, y)
         IN  <<m>> \o sorted(S \ {m})

\* str(i) for i >= 0
RECURSIVE IntToStr(_)
IntToStr(i) ==
    IF i < 10 THEN <<Digits[i + 1]>>
    ELSE IntToStr(i \div 10) \o <<Digits[(i % 10) + 1]>>

\* "%02d"
Pad2(i) == <<Digits[((i \div 10) % 10) + 1], Digits[(i % 10) + 1]>>

\* os.path.splitext(name)[1]: from the last dot, unless only dots precede it
splitext(name) ==
    LET dots == {i \in 1..Len(name) : name[i] = "."}
    IN  IF dots = {} THEN <<>>
        ELSE LET last == CHOOSE i \in dots : \A j \in dots : j <= i
             IN  IF \A j \in 1..(last - 1) : name[j] = "."
                 THEN <<>>
                 ELSE SubSeq(name, last, Len(name))

\* the character of s at position i, "" past its end
At(s, i) == IF 1 <= i /\ i <= Len(s) THEN s[i] ELSE ""

\* s.replace(old, new) for a character old and a string new
RECURSIVE Replace(_, _, _)
Replace(s, old, new) ==
    IF s = <<>> THEN <<>>
    ELSE (IF Head(s) = old THEN new ELSE <<Head(s)>>) \o Replace(Tail(s), old, new)

\* s.strip()
RECURSIVE strip(_)
strip(s) ==
    IF s = <<>> THEN <<>>
    ELSE IF IsSpace(s[1]) THEN strip(Tail(s))
    ELSE IF IsSpace(s[Len(s)]) THEN strip(SubSeq(s, 1, Len(s) - 1))
    ELSE s

----------------------------------------------------------------------------
(* String literals of the script.                                          *)

IPHONE == <<"i", "p", "h", "o", "n", "e">>

ANDROID == <<"a", "n", "d", "r", "o", "i", "d">>

APPLE == <<"a", "p", "p", "l", "e">>

GOOGLE == <<"g", "o", "o", "g", "l", "e">>

PIXEL == <<"p", "i", "x", "e", "l">>

DotMov == <<".", "m", "o", "v">>

DotMp4 == <<".", "m", "p", "4">>

DotHeic == <<".", "h", "e", "i", "c">>

DotJpg == <<".", "j", "p", "g">>

DotJpeg == <<".", "j", "p", "e", "g">>

\* FILE_EXTS (its keys)
FILE_EXTS == {DotMov, DotMp4, DotHeic, DotJpg, DotJpeg}

FORMAT == <<"f", "o", "r", "m", "a", "t">>

TAGS == <<"t", "a", "g", "s">>

STREAMS == <<"s", "t", "r", "e", "a", "m", "s">>

CREATION_TIME == <<"c", "r", "e", "a", "t", "i", "o", "n", "_", "t", "i", "m", "e">>

----------------------------------------------------------------------------
(* Instants and the civil calendar.  An instant is [day, sec]: a day       *)
(* number counted from 1970-01-01 and the second of that day (an aware UTC *)
(* datetime, whole seconds).  A wall clock reading has the same form.      *)

\* days since 1970-01-01 of the proleptic Gregorian date y-m-d
DaysFromCivil(y, m, d) ==
    LET yy  == IF m <= 2 THEN y - 1 ELSE y
        era == yy \div 400
        yoe == yy - era * 400
        mp  == IF m > 2 THEN m - 3 ELSE m + 9
        doy == ((153 * mp + 2) \div 5) + d - 1
        doe == yoe * 365 + (yoe \div 4) - (yoe \div 100) + doy
    IN  era * 146097 + doe - 719468

\* the date [y, m, d] of a day number
CivilFromDays(z) ==
    LET zz  == z + 719468
        era == zz \div 146097
        doe == zz - era * 146097
        yoe == (doe - (doe \div 1460) + (doe \div 36524) - (doe \div 146096)) \div 365
        doy == doe - (365 * yoe + (yoe \div 4) - (yoe \div 100))
        mp  == (5 * doy + 2) \div 153
        dd  == doy - ((153 * mp + 2) \div 5) + 1
        mm  == IF mp < 10 THEN mp + 3 ELSE mp - 9
    IN  [y |-> yoe + era * 400 + (IF mm <= 2 THEN 1 ELSE 0), m |-> mm, d |-> dd]

\* the number of days of month m of year y
DaysInMonth(y, m) ==
    IF m = 12 THEN 31 ELSE DaysFromCivil(y, m + 1, 1) - DaysFromCivil(y, m, 1)

\* datetime.min and datetime.max, as day numbers
MinDay == DaysFromCivil(1, 1, 1)

MaxDay == DaysFromCivil(9999, 12, 31)

\* datetime(y, m, d, H, M, S, tzinfo=timezone.utc)
Utc(y, m, d, H, M, S) == [day |-> DaysFromCivil(y, m, d), sec |-> H * 3600 + M * 60 + S]

\* t + timedelta(seconds=n)
Shift(t, n) ==
    LET total == t.sec + n
    IN  [day |-> t.day + (total \div 86400), sec |-> total % 86400]

\* a < b for instants
Before(a, b) == a.day < b.day \/ (a.day = b.day /\ a.sec < b.sec)

\* 0 = Sunday ... 6 = Saturday
Weekday(days) == (days + 4) % 7

\* the day number of the n-th Sunday of month m of year y
NthSunday(y, m, n) ==
    LET first == DaysFromCivil(y, m, 1)
    IN  first + ((7 - Weekday(first)) % 7) + 7 * (n - 1)

\* the day number of the last Sunday of month m (m < 12) of year y
LastSunday(y, m) ==
    LET last == DaysFromCivil(y, m + 1, 1) - 1
    IN  last - Weekday(last)

\* the instant of hour h UTC of a day number
AtHour(days, h) == [day |-> days, sec |-> h * 3600]

\* the daylight time rule of America/Los_Angeles for the year y, as the
\* instants [on, off) between which daylight time is in force; on = off
\* when the year has none.  The periods that are not a yearly rule (war
\* time 1942-1945, and 1948 which ends on 1 January 1949) are in
\* PacificOffset.
DaylightRule(y) ==
    IF y >= 2007
    THEN [on |-> AtHour(NthSunday(y, 3, 2), 10), off |-> AtHour(NthSunday(y, 11, 1), 9)]
    ELSE IF y >= 1987
    THEN [on |-> AtHour(NthSunday(y, 4, 1), 10), off |-> AtHour(LastSunday(y, 10), 9)]
    ELSE IF y = 1975
    THEN [on |-> AtHour(DaysFromCivil(1975, 2, 23), 10), off |-> AtHour(LastSunday(y, 10), 9)]
    ELSE IF y = 1974
    THEN [on |-> AtHour(DaysFromCivil(1974, 1, 6), 10), off |-> AtHour(LastSunday(y, 10), 9)]
    ELSE IF y >= 1967
    THEN [on |-> AtHour(LastSunday(y, 4), 10), off |-> AtHour(LastSunday(y, 10), 9)]
    ELSE IF y >= 1962
    THEN [on |-> AtHour(LastSunday(y, 4), 9), off |-> AtHour(LastSunday(y, 10), 9)]
    ELSE IF y >= 1950
    THEN [on |-> AtHour(LastSunday(y, 4), 9), off |-> AtHour(LastSunday(y, 9), 9)]
    ELSE IF y \in {1918, 1919}
    THEN [on |-> AtHour(LastSunday(y, 3), 10), off |-> AtHour(LastSunday(y, 10), 9)]
    ELSE [on |-> AtHour(0, 0), off |-> AtHour(0, 0)]

\* PACIFIC: the UTC offset, in seconds, of America/Los_Angeles at instant t:
\* local mean time until standard time began on 18 November 1883, then
\* standard or daylight time
PacificOffset(t) ==
    LET rule     == DaylightRule(CivilFromDays(t.day).y)
        warTime  == /\ ~Before(t, AtHour(DaysFromCivil(1942, 2, 9), 10))
                    /\ Before(t, AtHour(DaysFromCivil(1945, 9, 30), 9))
        in1948   == /\ ~Before(t, Shift(AtHour(DaysFromCivil(1948, 3, 14), 10), 60))
                    /\ Before(t, AtHour(DaysFromCivil(1949, 1, 1), 9))
        daylight == (~Before(t, rule.on) /\ Before(t, rule.off)) \/ warTime \/ in1948
    IN  IF Before(t, AtHour(DaysFromCivil(1883, 11, 18), 20)) THEN -(7 * 3600 + 52 * 60 + 58)
        ELSE IF daylight THEN -7 * 3600
        ELSE -8 * 3600

\* dt_utc.astimezone(PACIFIC), as a wall clock reading
astimezone(dt_utc) == Shift(dt_utc, PacificOffset(dt_utc))

\* astimezone raises OverflowError: the local date is before datetime.min
AstimezoneRaises(dt_utc) == astimezone(dt_utc).day < MinDay

\* strftime("%Y%m%d-%H%M%S") of the wall clock reading w; %Y is the year
\* without padding
strftime(w) ==
    LET date == CivilFromDays(w.day)
    IN  IntToStr(date.y) \o Pad2(date.m) \o Pad2(date.d) \o <<"-">>
        \o Pad2(w.sec \div 3600) \o Pad2((w.sec % 3600) \div 60) \o Pad2(w.sec % 60)

\* pacific_stamp(dt_utc), when astimezone does not raise
pacific_stamp(dt_utc) == strftime(astimezone(dt_utc))


----------------------------------------------------------------------------
(* The metadata extractor (exiftool) and the device classifier.            *)
(*                                                                         *)
(* A JSON field is [t, v]: t = "absent" (no such key), "str" (a string,    *)
(* v its characters) or "other" (a number, null, list or object).          *)
(* The outcome of exiftool on a file is [status, Make, Model, AndroidMake, *)
(* AndroidModel] with status                                               *)
(*   "error"      the process could not be run or exited non-zero,         *)
(*   "malformed"  its output is not JSON,                                  *)
(*   "empty"      its output is an empty JSON list,                        *)
(*   "nondict"    its output is a list whose first element is no object,   *)
(*   "ok"         its output is a list whose first element has the fields. *)

Absent == [t |-> "absent", v |-> <<>>]

Other == [t |-> "other", v |-> <<>>]

Str(chars) == [t |-> "str", v |-> chars]

\* metadata.get(key, "") followed by .lower() raises on a non-string
LowerRaises(field) == field.t = "other"

\* metadata.get(key, "").lower()
GetLower(field) == IF field.t = "str" THEN Lower(field.v) ELSE <<>>

\* the Apple/iPhone test of line 39
IsAppleRule(make, model) == make = APPLE \/ Contains(model, IPHONE)

\* the Android/Google test of line 43
IsAndroidRule(make, model, android_make, android_model) ==
    \/ android_make # <<>>
    \/ android_model # <<>>
    \/ make = GOOGLE
    \/ Contains(model, PIXEL)

\* the try block of detect_device_from_metadata: "iphone", "android", or
\* "none" when it falls through (no match, empty output, or an exception)
DetectInTry(exif) ==
    IF exif.status # "ok" THEN "none"
    ELSE IF \/ LowerRaises(exif.Make) \/ LowerRaises(exif.Model)
            \/ LowerRaises(exif.AndroidMake) \/ LowerRaises(exif.AndroidModel)
    THEN "none"
    ELSE LET make          == GetLower(exif.Make)
             model         == GetLower(exif.Model)
             android_make  == GetLower(exif.AndroidMake)
             android_model == GetLower(exif.AndroidModel)
         IN  IF IsAppleRule(make, model) THEN "iphone"
             ELSE IF IsAndroidRule(make, model, android_make, android_model)
             THEN "android"
             ELSE "none"

\* the extension fallback of lines 49-54
DetectByExtension(path) ==
    IF Lower(splitext(path)) \in {DotMov, DotHeic} THEN "iphone" ELSE "android"

\* detect_device_from_metadata with a fault: the Android test is made first
detect_android_first(path, exif) ==
    IF exif.status = "ok"
       /\ ~(\/ LowerRaises(exif.Make) \/ LowerRaises(exif.Model)
            \/ LowerRaises(exif.AndroidMake) \/ LowerRaises(exif.AndroidModel))
       /\ IsAndroidRule(GetLower(exif.Make), GetLower(exif.Model),
                        GetLower(exif.AndroidMake), GetLower(exif.AndroidModel))
    THEN "android"
    ELSE IF DetectInTry(exif) # "none" THEN DetectInTry(exif)
    ELSE DetectByExtension(path)

\* detect_device_from_metadata(path), exif being exiftool's outcome on path
detect_device_from_metadata(path, exif) ==
    IF DetectInTry(exif) # "none" THEN DetectInTry(exif)
    ELSE DetectByExtension(path)

----------------------------------------------------------------------------
(* datetime.fromisoformat and datetime.strptime, as CPython 3.11 computes  *)
(* them.  A parse result is a record with the field ok; the other fields   *)
(* mean something only when ok holds.                                      *)

\* the value of the n ASCII digits of s from position pos, -1 when one of
\* them is missing or is no ASCII digit
RECURSIVE AsciiNumber(_, _, _)
AsciiNumber(s, pos, n) ==
    IF n = 0 THEN 0
    ELSE IF pos + n - 1 > Len(s) \/ s[pos + n - 1] \notin AsciiDigit THEN -1
    ELSE LET high == AsciiNumber(s, pos, n - 1)
         IN  IF high < 0 THEN -1 ELSE high * 10 + DigitValue(s[pos + n - 1])

\* the number of ASCII digits of s in a row from position pos
RECURSIVE DigitRun(_, _)
DigitRun(s, pos) ==
    IF pos > Len(s) \/ s[pos] \notin AsciiDigit THEN 0 ELSE 1 + DigitRun(s, pos + 1)

RECURSIVE Pow10(_)
Pow10(k) == IF k = 0 THEN 1 ELSE 10 * Pow10(k - 1)

\* _find_isoformat_datetime_separator(dtstr) for a string of at least 7
\* characters: the length of the date part, 0 for "Invalid ISO string"
find_isoformat_datetime_separator(s) ==
    LET n == Len(s)
    IN  IF n = 7 THEN 7
        ELSE IF s[5] = "-"
        THEN IF s[6] = "W"
             THEN IF n > 8 /\ s[9] = "-"
                  THEN IF n = 9 THEN 0
                       ELSE IF n > 10 /\ s[11] \in AsciiDigit THEN 8
                       ELSE 10
                  ELSE 8
             ELSE 10
        ELSE IF s[5] = "W"
        THEN LET index == 7 + DigitRun(s, 8)
             IN  IF index < 9 THEN index
                 ELSE IF index % 2 = 0 THEN 7
                 ELSE 8
        ELSE 8

NoDate == [ok |-> FALSE, day |-> 0]

\* the number of ISO weeks of year y: 53 when 1 January is a Thursday, or a
\* Wednesday in a leap year
WeeksInYear(y) ==
    LET first == Weekday(DaysFromCivil(y, 1, 1))
    IN  IF first = 4 \/ (first = 3 /\ DaysInMonth(y, 2) = 29) THEN 53 ELSE 52

\* _isoweek_to_gregorian(year, week, day)
isoweek_to_gregorian(year, week, day) ==
    LET jan4    == DaysFromCivil(year, 1, 4)
        monday1 == jan4 - ((Weekday(jan4) + 6) % 7)
        result  == monday1 + (week - 1) * 7 + (day - 1)
    IN  IF year < 1 \/ year > 9999 THEN NoDate
        ELSE IF week < 1 \/ week > 53 \/ (week = 53 /\ WeeksInYear(year) # 53) THEN NoDate
        ELSE IF day < 1 \/ day > 7 THEN NoDate
        ELSE IF result < MinDay \/ result > MaxDay THEN NoDate
        ELSE [ok |-> TRUE, day |-> result]

\* _parse_isoformat_date(dtstr): YYYY-MM-DD, YYYYMMDD, YYYY-Www, YYYYWww,
\* YYYY-Www-D or YYYYWwwD
parse_isoformat_date(s) ==
    LET year    == AsciiNumber(s, 1, 4)
        has_sep == IF At(s, 5) = "-" THEN 1 ELSE 0
        pos     == 5 + has_sep
    IN  IF year < 0 THEN NoDate
        ELSE IF At(s, pos) = "W"
        THEN LET week   == AsciiNumber(s, pos + 1, 2)
                 rest   == pos + 3
                 dayPos == rest + has_sep
                 day    == IF Len(s) >= rest THEN AsciiNumber(s, dayPos, 1) ELSE 1
             IN  IF week < 0 THEN NoDate
                 ELSE IF /\ Len(s) >= rest
                         /\ \/ (At(s, rest) = "-") # (has_sep = 1)
                            \/ day < 0
                            \/ dayPos # Len(s)
                 THEN NoDate
                 ELSE isoweek_to_gregorian(year, week, day)
        ELSE LET month  == AsciiNumber(s, pos, 2)
                 dayPos == pos + 2 + has_sep
                 day    == AsciiNumber(s, dayPos, 2)
             IN  IF month < 0 THEN NoDate
                 ELSE IF (At(s, pos + 2) = "-") # (has_sep = 1) THEN NoDate
                 ELSE IF day < 0 \/ dayPos + 1 # Len(s) THEN NoDate
                 ELSE IF year < 1 \/ month < 1 \/ month > 12 THEN NoDate
                 ELSE IF day < 1 \/ day > DaysInMonth(year, month) THEN NoDate
                 ELSE [ok |-> TRUE, day |-> DaysFromCivil(year, month, day)]

NoClock == [ok |-> FALSE, h |-> 0, m |-> 0, s |-> 0, us |-> 0, extra |-> FALSE]

\* the fraction of parse_hh_mm_ss_ff: up to six ASCII digits from position
\* pos are read as microseconds, further digits are passed over; extra
\* tells that something follows them
ParseFraction(s, pos, vals) ==
    LET to_parse == IF Len(s) - pos + 1 < 6 THEN Len(s) - pos + 1 ELSE 6
        digits   == AsciiNumber(s, pos, to_parse)
        after    == pos + to_parse + DigitRun(s, pos + to_parse)
    IN  IF digits < 0 THEN NoClock
        ELSE [ok |-> TRUE, h |-> vals[1], m |-> vals[2], s |-> vals[3],
              us |-> digits * Pow10(6 - to_parse), extra |-> after <= Len(s)]

\* the loop of parse_hh_mm_ss_ff from component i (1 hours, 2 minutes,
\* 3 seconds) at position pos
RECURSIVE ParseComponents(_, _, _, _, _)
ParseComponents(s, i, pos, has_sep, vals) ==
    LET value  == AsciiNumber(s, pos, 2)
        now    == [vals EXCEPT ![i] = value]
        c      == At(s, pos + 2)
        sep    == IF i = 1 THEN c = ":" ELSE has_sep
        done   == [ok |-> TRUE, h |-> now[1], m |-> now[2], s |-> now[3], us |-> 0,
                   extra |-> c # ""]
    IN  IF value < 0 THEN NoClock
        ELSE IF c = "" THEN done
        ELSE IF ~IsAscii(c) THEN NoClock
        ELSE IF pos + 2 >= Len(s) THEN done
        ELSE IF sep /\ c = ":"
        THEN IF i = 3 THEN ParseFraction(s, pos + 3, now)
             ELSE ParseComponents(s, i + 1, pos + 3, sep, now)
        ELSE IF c \in {".", ","} THEN ParseFraction(s, pos + 3, now)
        ELSE IF ~sep
        THEN IF i = 3 THEN ParseFraction(s, pos + 2, now)
             ELSE ParseComponents(s, i + 1, pos + 2, sep, now)
        ELSE NoClock

\* parse_hh_mm_ss_ff: HH[:MM[:SS[.fff]]] or HH[MM[SS[.fff]]]
parse_hh_mm_ss_ff(s) == ParseComponents(s, 1, 1, TRUE, <<0, 0, 0>>)

NoTimeOfDay ==
    [ok |-> FALSE, h |-> 0, m |-> 0, s |-> 0, us |-> 0, aware |-> FALSE,
     off |-> 0, off_us |-> 0]

\* the position of the first Z, + or - of s, 0 when there is none
TzMark(s) ==
    LET marks == {k \in 1..Len(s) : s[k] \in {"Z", "+", "-"}}
    IN  IF marks = {} THEN 0 ELSE CHOOSE k \in marks : \A j \in marks : k <= j

\* the result of _parse_isoformat_time for the reading clock of the time
TimeOfDay(clock, aware, off, off_us) ==
    [ok |-> TRUE, h |-> clock.h, m |-> clock.m, s |-> clock.s, us |-> clock.us,
     aware |-> aware, off |-> off, off_us |-> off_us]

\* _parse_isoformat_time after a + or -: offset is the reading of what
\* follows the sign.  An offset of zero whole seconds is timezone.utc.
WithOffset(clock, sign, offset) ==
    LET secs == sign * (offset.h * 3600 + offset.m * 60 + offset.s)
    IN  IF ~offset.ok \/ offset.extra THEN NoTimeOfDay
        ELSE TimeOfDay(clock, TRUE, secs, IF secs = 0 THEN 0 ELSE sign * offset.us)

\* _parse_isoformat_time once the time before position tz is read as clock
WithClock(s, tz, clock) ==
    IF ~clock.ok THEN NoTimeOfDay
    ELSE IF tz = 0 THEN (IF clock.extra THEN NoTimeOfDay ELSE TimeOfDay(clock, FALSE, 0, 0))
    ELSE IF s[tz] = "Z" THEN (IF tz # Len(s) THEN NoTimeOfDay ELSE TimeOfDay(clock, TRUE, 0, 0))
    ELSE WithOffset(clock, IF s[tz] = "-" THEN -1 ELSE 1,
                    parse_hh_mm_ss_ff(SubSeq(s, tz + 1, Len(s))))

\* the time of s, its offset starting at position tz (0: no offset)
TimeUpTo(s, tz) ==
    WithClock(s, tz, parse_hh_mm_ss_ff(IF tz = 0 THEN s ELSE SubSeq(s, 1, tz - 1)))

\* _parse_isoformat_time(tstr): the time, and the UTC offset after the
\* first Z, + or -
parse_isoformat_time(s) == TimeUpTo(s, TzMark(s))

NoDateTime ==
    [ok |-> FALSE, day |-> 0, sec |-> 0, us |-> 0, aware |-> FALSE, off |-> 0,
     off_us |-> 0]

\* the datetime fromisoformat builds of the parsed date and time
Combine(date, time) ==
    IF ~date.ok THEN NoDateTime
    ELSE IF ~time.ok THEN NoDateTime
    ELSE IF time.h > 23 \/ time.m > 59 \/ time.s > 59 THEN NoDateTime
    ELSE IF time.aware /\ (time.off >= 86400 \/ time.off <= -86400) THEN NoDateTime
    ELSE [ok |-> TRUE, day |-> date.day,
          sec |-> time.h * 3600 + time.m * 60 + time.s, us |-> time.us,
          aware |-> time.aware, off |-> time.off, off_us |-> time.off_us]

\* fromisoformat on s with a date part of loc characters: one separator
\* character follows it, then the time
SplitAt(s, loc) ==
    IF loc = 0 THEN NoDateTime
    ELSE Combine(parse_isoformat_date(SubSeq(s, 1, IF loc < Len(s) THEN loc ELSE Len(s))),
                 IF Len(s) > loc
                 THEN parse_isoformat_time(SubSeq(s, loc + 2, Len(s)))
                 ELSE [NoTimeOfDay EXCEPT !.ok = TRUE])

\* datetime.fromisoformat(s): the wall clock reading [day, sec, us], and for
\* an aware result the offset east of UTC [off, off_us]
fromisoformat(s) ==
    IF Len(s) < 7 THEN NoDateTime ELSE SplitAt(s, find_isoformat_datetime_separator(s))

\* int(s) for a string of decimal digits, white space around them ignored
RECURSIVE int(_)
int(s) ==
    IF s = <<>> THEN 0
    ELSE IF IsSpace(s[Len(s)]) THEN int(SubSeq(s, 1, Len(s) - 1))
    ELSE int(SubSeq(s, 1, Len(s) - 1)) * 10 + DigitValue(s[Len(s)])

\* The regular expressions _strptime builds.  A pattern is a sequence of
\* items, an item a sequence of alternatives in the order the engine tries
\* them, an alternative a sequence of character sets.
UnicodeDigit == AsciiDigit \cup {"U+0663", "U+FF12"}

DigitRange(a, b) == {Digits[i + 1] : i \in a..b}

Literal(cs) == << <<cs>> >>

\* %Y: \d\d\d\d
DirectiveY == << <<UnicodeDigit, UnicodeDigit, UnicodeDigit, UnicodeDigit>> >>

\* %m: 1[0-2]|0[1-9]|[1-9]
DirectiveM ==
    << <<{"1"}, DigitRange(0, 2)>>, <<{"0"}, DigitRange(1, 9)>>, <<DigitRange(1, 9)>> >>

\* %d: 3[0-1]|[1-2]\d|0[1-9]|[1-9]| [1-9]
DirectiveD ==
    << <<{"3"}, DigitRange(0, 1)>>, <<DigitRange(1, 2), UnicodeDigit>>,
       <<{"0"}, DigitRange(1, 9)>>, <<DigitRange(1, 9)>>, <<{" "}, DigitRange(1, 9)>> >>

\* %H: 2[0-3]|[0-1]\d|\d
DirectiveH ==
    << <<{"2"}, DigitRange(0, 3)>>, <<DigitRange(0, 1), UnicodeDigit>>, <<UnicodeDigit>> >>

\* %M: [0-5]\d|\d
DirectiveMinute == << <<DigitRange(0, 5), UnicodeDigit>>, <<UnicodeDigit>> >>

\* %S: 6[0-1]|[0-5]\d|\d
DirectiveS ==
    << <<{"6"}, DigitRange(0, 1)>>, <<DigitRange(0, 5), UnicodeDigit>>, <<UnicodeDigit>> >>

\* %f: [0-9]{1,6}, the longest first
DirectiveF == [k \in 1..6 |-> [j \in 1..(7 - k) |-> AsciiDigit]]

\* "%Y-%m-%dT%H:%M:%S" compiled with re.IGNORECASE
FormatSeconds ==
    <<DirectiveY, Literal({"-"}), DirectiveM, Literal({"-"}), DirectiveD,
      Literal({"T", "t"}), DirectiveH, Literal({":"}), DirectiveMinute,
      Literal({":"}), DirectiveS>>

\* "%Y-%m-%dT%H:%M:%S.%f"
FormatFraction == FormatSeconds \o <<Literal({"."}), DirectiveF>>

NoMatch == [ok |-> FALSE, ends |-> <<>>]

\* the alternative alt matches s from position pos
Fits(alt, s, pos) ==
    /\ pos + Len(alt) - 1 <= Len(s)
    /\ \A j \in 1..Len(alt) : s[pos + j - 1] \in alt[j]

\* re.match of the items k.. of pattern on s from position pos, trying the
\* alternatives of an item in order and going back to the next one when
\* the rest does not match: the position where each item ends
RECURSIVE MatchItems(_, _, _, _), MatchAlternatives(_, _, _, _, _)
MatchAlternatives(pattern, k, s, pos, a) ==
    IF a > Len(pattern[k]) THEN NoMatch
    ELSE LET alt  == pattern[k][a]
             rest == MatchItems(pattern, k + 1, s, pos + Len(alt))
         IN  IF Fits(alt, s, pos) /\ rest.ok
             THEN [ok |-> TRUE, ends |-> <<pos + Len(alt) - 1>> \o rest.ends]
             ELSE MatchAlternatives(pattern, k, s, pos, a + 1)

MatchItems(pattern, k, s, pos) ==
    IF k > Len(pattern) THEN [ok |-> TRUE, ends |-> <<>>]
    ELSE MatchAlternatives(pattern, k, s, pos, 1)

NoReading == [ok |-> FALSE, day |-> 0, sec |-> 0]

\* datetime.strptime(s, format): the whole of s must match, then the
\* fields must make a date and a time
strptime(s, format) ==
    LET found    == MatchItems(format, 1, s, 1)
        group(k) == int(SubSeq(s, found.ends[k - 1] + 1, found.ends[k]))
        year     == int(SubSeq(s, 1, found.ends[1]))
        month    == group(3)
        day      == group(5)
        second   == group(11)
    IN  IF ~found.ok THEN NoReading
        ELSE IF found.ends[Len(format)] # Len(s) THEN NoReading
        ELSE IF year < 1 \/ day > DaysInMonth(year, month) \/ second > 59 THEN NoReading
        ELSE [ok |-> TRUE, day |-> DaysFromCivil(year, month, day),
              sec |-> group(7) * 3600 + group(9) * 60 + second]

----------------------------------------------------------------------------
(* The media prober (ffprobe) and the timestamp resolver.                  *)
(*                                                                         *)
(* A JSON value is [k, v]: k = "null", "num" (a number or a boolean),      *)
(* "str" (v its characters), "list" (v the sequence of its elements) or    *)
(* "dict" (v the function from its keys to its values).                    *)
(* The outcome of ffprobe on a file is [status, data] with status          *)
(*   "error"      the process could not be run or exited non-zero,         *)
(*   "malformed"  its output is not JSON,                                  *)
(*   "json"       its output is the JSON value data.                       *)

JNull == [k |-> "null", v |-> <<>>]

JNum == [k |-> "num", v |-> <<>>]

JStr(chars) == [k |-> "str", v |-> chars]

JList(elements) == [k |-> "list", v |-> elements]

JDict(items) == [k |-> "dict", v |-> items]

NoInstant == [day |-> 0, sec |-> 0]

\* s.replace("Z", "+00:00") when s ends with Z
ReplaceZ(s) ==
    IF s # <<>> /\ s[Len(s)] = "Z"
    THEN Replace(s, "Z", <<"+", "0", "0", ":", "0", "0">>)
    ELSE s

\* s.replace(" ", "T")
ReplaceSpace(s) == Replace(s, " ", <<"T">>)

\* dt.astimezone(timezone.utc) for the aware result d of fromisoformat:
\* [ok, t], ok false for the OverflowError of a result outside
\* datetime.min .. datetime.max
ToUtc(d) ==
    LET us    == d.us - d.off_us
        carry == IF us < 0 THEN -1 ELSE IF us >= 1000000 THEN 1 ELSE 0
        t     == Shift([day |-> d.day, sec |-> d.sec], carry - d.off)
    IN  [ok |-> t.day >= MinDay /\ t.day <= MaxDay, t |-> t]

\* r when it is a result, else otherwise
OrElse(r, otherwise) == IF r.ok THEN r ELSE otherwise

\* datetime.strptime(s, f).replace(tzinfo=timezone.utc) as a result [ok, t]
Strptime(s, f) ==
    LET r == strptime(s, f) IN [ok |-> r.ok, t |-> [day |-> r.day, sec |-> r.sec]]

\* the except branch of _parse_iso_to_utc, on the string as the try block
\* left it: the formats in order
ParseFallback(s) ==
    OrElse(Strptime(s, FormatSeconds),
           OrElse(Strptime(s, FormatFraction), [ok |-> FALSE, t |-> NoInstant]))

\* lines 111-116 for the result dt of fromisoformat: [ok, t], ok false
\* when fromisoformat or astimezone raised
TryBlock(dt) ==
    IF ~dt.ok THEN [ok |-> FALSE, t |-> NoInstant]
    ELSE IF ~dt.aware THEN [ok |-> TRUE, t |-> [day |-> dt.day, sec |-> dt.sec]]
    ELSE ToUtc(dt)

\* lines 110-129 on the string n that lines 103-109 made of s
ParseNormalised(n) == OrElse(TryBlock(fromisoformat(n)), ParseFallback(n))

\* _parse_iso_to_utc(s) for a string s: [ok, t], t the instant in whole
\* seconds
parse_iso_to_utc(s) == ParseNormalised(ReplaceSpace(ReplaceZ(strip(s))))

\* x.get(key, default) raises AttributeError: x is no object
GetRaises(x) == x.k # "dict"

\* x.get(key, default) for an object x
Get(x, key, default) == IF key \in DOMAIN x.v THEN x.v[key] ELSE default

\* "creation_time" in x raises TypeError
InRaises(x) == x.k \in {"null", "num"}

\* "creation_time" in x: a key of an object, an element of a list, a
\* substring of a string
HasCreationTime(x) ==
    IF x.k = "dict" THEN CREATION_TIME \in DOMAIN x.v
    ELSE IF x.k = "list"
    THEN \E i \in 1..Len(x.v) : x.v[i].k = "str" /\ x.v[i].v = CREATION_TIME
    ELSE Contains(x.v, CREATION_TIME)

\* x["creation_time"] raises TypeError: x is a string or a list
SubscriptRaises(x) == x.k # "dict"

\* iterating x raises TypeError
IterRaises(x) == x.k \in {"null", "num"}

\* the values a for loop over x takes: the elements of a list, the
\* characters of a string, the keys of an object
Iterate(x) ==
    IF x.k = "list" THEN x.v
    ELSE IF x.k = "str" THEN [i \in 1..Len(x.v) |-> JStr(<<x.v[i]>>)]
    ELSE LET keys == sorted(DOMAIN x.v)
         IN  [i \in 1..Len(keys) |-> JStr(keys[i])]

\* lines 78-80 for data.get("format", {}), lines 82-84 for a stream: what
\* holder adds to candidates, [out, cands] with out = "ok" or "raise"
TagsOf(holder) ==
    IF GetRaises(holder) THEN [out |-> "raise", cands |-> <<>>]
    ELSE LET tags == Get(holder, TAGS, JDict(<<>>))
         IN  IF InRaises(tags) THEN [out |-> "raise", cands |-> <<>>]
             ELSE IF ~HasCreationTime(tags) THEN [out |-> "ok", cands |-> <<>>]
             ELSE IF SubscriptRaises(tags) THEN [out |-> "raise", cands |-> <<>>]
             ELSE [out |-> "ok", cands |-> <<tags.v[CREATION_TIME]>>]

\* the loop of lines 81-84 over the streams from position i on
RECURSIVE StreamTags(_, _)
StreamTags(streams, i) ==
    IF i > Len(streams) THEN [out |-> "ok", cands |-> <<>>]
    ELSE LET first == TagsOf(streams[i])
             rest  == StreamTags(streams, i + 1)
         IN  IF first.out = "raise" \/ rest.out = "raise"
             THEN [out |-> "raise", cands |-> <<>>]
             ELSE [out |-> "ok", cands |-> first.cands \o rest.cands]

\* lines 81-84: what the streams add to candidates
StreamsPart(data) ==
    LET streams == Get(data, STREAMS, JList(<<>>))
    IN  IF IterRaises(streams) THEN [out |-> "raise", cands |-> <<>>]
        ELSE StreamTags(Iterate(streams), 1)

\* lines 78-80: what the container adds to candidates
FormatPart(data) == TagsOf(Get(data, FORMAT, JDict(<<>>)))

\* Candidates with a fault: the stream tags are collected before the
\* container tag
CandidatesStreamsFirst(data) ==
    IF GetRaises(data) \/ FormatPart(data).out = "raise" \/ StreamsPart(data).out = "raise"
    THEN [out |-> "raise", cands |-> <<>>]
    ELSE [out |-> "ok", cands |-> StreamsPart(data).cands \o FormatPart(data).cands]

\* the list candidates of lines 77-85 for the JSON value data: container
\* first, then the streams in order; [out, cands], out = "raise" when one
\* of the lines raises
Candidates(data) ==
    IF GetRaises(data) \/ FormatPart(data).out = "raise" \/ StreamsPart(data).out = "raise"
    THEN [out |-> "raise", cands |-> <<>>]
    ELSE [out |-> "ok", cands |-> FormatPart(data).cands \o StreamsPart(data).cands]

\* line 90: the parsed candidate is returned, else the loop goes on
ReturnOr(r, otherwise) == IF r.ok THEN [out |-> "dt", t |-> r.t] ELSE otherwise

\* the loop of lines 88-92: [out, t] with out = "dt", "none" or "raise"
\* (s.strip() on a candidate that is no string)
RECURSIVE FirstParsed(_)
FirstParsed(cands) ==
    IF cands = <<>> THEN [out |-> "none", t |-> NoInstant]
    ELSE IF Head(cands).k # "str" THEN [out |-> "raise", t |-> NoInstant]
    ELSE ReturnOr(parse_iso_to_utc(Head(cands).v), FirstParsed(Tail(cands)))

\* run_ffprobe_datetime(path), probe being ffprobe's outcome on path
run_ffprobe_datetime(probe) ==
    IF probe.status \in {"error", "malformed"} THEN [out |-> "none", t |-> NoInstant]
    ELSE IF Candidates(probe.data).out = "raise" THEN [out |-> "raise", t |-> NoInstant]
    ELSE FirstParsed(Candidates(probe.data).cands)

\* get_file_time_utc(path)
get_file_time_utc(file) == file.mtime

\* lines 207-208 for the outcome r of run_ffprobe_datetime
OrFileTime(r, file) ==
    IF r.out = "raise" THEN [out |-> "raise", t |-> NoInstant, from |-> "none"]
    ELSE IF r.out = "none"
    THEN [out |-> "dt", t |-> get_file_time_utc(file), from |-> "mtime"]
    ELSE [out |-> "dt", t |-> r.t, from |-> "metadata"]

\* lines 206-208 of main: [out, t, from], from naming the source used
ResolveTimestamp(file) == OrFileTime(run_ffprobe_datetime(file.ffprobe), file)

----------------------------------------------------------------------------
(* Names, collision handling and the loop of main.                         *)
(*                                                                         *)
(* An entry of the directory is [orig, kind, target, mtime, exif,          *)
(* ffprobe]: kind = "file" (a regular file), "dir" or "link" (a symbolic   *)
(* link to the name target of the same directory, which may be missing);   *)
(* mtime, exif and ffprobe are what the file system and the utilities say  *)
(* about a regular file; orig is the name the entry had at first.          *)

\* the characters of s from position from on begin with the literal lit
MatchesLiteral(s, from, lit, ignorecase) ==
    /\ from + Len(lit) - 1 <= Len(s)
    /\ \A i \in 1..Len(lit) : CharMatches(s[from + i - 1], lit[i], ignorecase)

\* re.match of ^\d{8}-\d{6}-(iphone|android)\.(mov|mp4|heic|jpg|jpeg)$ on
\* filename: \d is any decimal digit, and $ matches at the end of the name
\* and before a line feed that ends it
MatchesPattern(filename, ignorecase) ==
    /\ Len(filename) > 16
    /\ \A i \in 1..8 : IsDigit(filename[i])
    /\ filename[9] = "-"
    /\ \A i \in 10..15 : IsDigit(filename[i])
    /\ filename[16] = "-"
    /\ LET alternatives == {dev \o e : dev \in {IPHONE, ANDROID}, e \in FILE_EXTS}
           ends(last)   == IF Len(filename) = last + 1
                           THEN filename[last + 1] = "U+000A"
                           ELSE Len(filename) = last
       IN  {lit \in alternatives :
                MatchesLiteral(filename, 17, lit, ignorecase)
                    /\ ends(16 + Len(lit))} # {}

\* is_already_renamed with a fault: re.IGNORECASE is missing
is_already_renamed_cased(filename) == MatchesPattern(filename, FALSE)

is_already_renamed(filename) == MatchesPattern(filename, TRUE)

\* f"{base}-{i}{ext.lower()}"
Candidate(base, i, ext) == base \o <<"-">> \o IntToStr(i) \o Lower(ext)

\* unique_target with a fault: the suffixes start at 2
unique_target_from_two(names, base, ext) ==
    IF (base \o Lower(ext)) \notin names THEN base \o Lower(ext)
    ELSE LET n == Cardinality(names) + 2
             i == CHOOSE k \in 2..n :
                      /\ Candidate(base, k, ext) \notin names
                      /\ \A j \in 2..(k - 1) : Candidate(base, j, ext) \in names
         IN  Candidate(base, i, ext)

\* unique_target(dirpath, base, ext), names being the names of dirpath for
\* which os.path.exists holds: the loop stops at the first i whose candidate
\* does not exist
unique_target(names, base, ext) ==
    IF (base \o Lower(ext)) \notin names THEN base \o Lower(ext)
    ELSE LET n == Cardinality(names) + 1
             i == CHOOSE k \in 1..n :
                      /\ Candidate(base, k, ext) \notin names
                      /\ \A j \in 1..(k - 1) : Candidate(base, j, ext) \in names
         IN  Candidate(base, i, ext)

\* the name of the entry of dir that name leads to when symbolic links are
\* followed, at most hops of them; <<>> when a name on the way is missing
\* or the links go in a circle
RECURSIVE Follow(_, _, _)
Follow(dir, name, hops) ==
    IF name \notin DOMAIN dir THEN <<>>
    ELSE IF dir[name].kind # "link" THEN name
    ELSE IF hops = 0 THEN <<>>
    ELSE Follow(dir, dir[name].target, hops - 1)

\* os.path.exists(os.path.join(dirpath, name)): it follows symbolic links
exists(dir, name) == Follow(dir, name, Cardinality(DOMAIN dir)) # <<>>

\* the names n of dir for which os.path.exists(os.path.join(dirpath, n))
\* holds: the name of a link whose target is missing does not exist
\* although os.listdir returns it
Existing(dir) == {n \in DOMAIN dir : exists(dir, n)}

\* the regular file that the utilities and os.path.getmtime read under
\* name: they follow symbolic links
FileOf(dir, name) == dir[Follow(dir, name, Cardinality(DOMAIN dir))]

\* os.path.isfile(src): it follows symbolic links
isfile(name) == exists(fs, name) /\ FileOf(fs, name).kind = "file"

\* lines 187-193: the entry is a regular file with a recognised extension
InScope(name) == isfile(name) /\ Lower(splitext(name)) \in FILE_EXTS

\* line 203
Prefix(device_type) ==
    IF device_type = "iphone" THEN args.iphone_prefix ELSE args.android_prefix

\* Destination with a fault: the source's own name does not count as taken
DestinationIgnoringSelf(name) ==
    LET file        == FileOf(fs, name)
        device_type == detect_device_from_metadata(name, file.exif)
        stamp       == pacific_stamp(ResolveTimestamp(file).t)
        base        == stamp \o <<"-">> \o Prefix(device_type)
    IN  unique_target(Existing(fs) \ {name}, base, Lower(splitext(name)))

\* lines 202-214 for the entry called name: the destination computed for it
Destination(name) ==
    LET file        == FileOf(fs, name)
        device_type == detect_device_from_metadata(name, file.exif)
        stamp       == pacific_stamp(ResolveTimestamp(file).t)
        base        == stamp \o <<"-">> \o Prefix(device_type)
    IN  unique_target(Existing(fs), base, Lower(splitext(name)))

\* Renamed with a fault: the file is moved whatever --dry-run says
RenamedAlways(dir, src, dst, dry_run) ==
    [n \in (DOMAIN dir \ {src}) \cup {dst} |-> IF n = dst THEN dir[src] ELSE dir[n]]

\* lines 224-228: the directory after os.rename(src, dst), which moves the
\* entry called src, a symbolic link as the link it is, and replaces an
\* entry called dst (a symbolic link whose target is missing); unchanged
\* under --dry-run
Renamed(dir, src, dst, dry_run) ==
    IF dry_run THEN dir
    ELSE [n \in (DOMAIN dir \ {src}) \cup {dst} |->
              IF n = dst THEN dir[src] ELSE dir[n]]

Line(kind, src, dst, a, b) == [kind |-> kind, src |-> src, dst |-> dst, a |-> a, b |-> b]

Current == listing[idx]

\* the loop has passed the entry Current
Handled == Append(handled, [name |-> Current, inscope |-> InScope(Current)])

----------------------------------------------------------------------------
(* The actions of a run.                                                   *)

\* lines 177-180
NotADirectory ==
    /\ pc = "start"
    /\ ~args.is_dir
    /\ out' = Append(out, Line("not_a_directory", <<>>, <<>>, 0, 0))
    /\ pc' = "done"
    /\ UNCHANGED <<fs, fs0, args, listing, idx, renamed, skipped, probed, plans,
                   handled, run, call>>

\* lines 182-185: the counters, and the listing taken once and sorted
ListDirectory ==
    /\ pc = "start"
    /\ args.is_dir
    /\ renamed' = 0
    /\ skipped' = 0
    /\ listing' = sorted(DOMAIN fs)
    /\ idx' = 1
    /\ pc' = "loop"
    /\ UNCHANGED <<fs, fs0, args, out, probed, plans, handled, run, call>>

\* lines 186-193: not a regular file, or not a recognised extension
Continue ==
    /\ pc = "loop"
    /\ idx <= Len(listing)
    /\ ~InScope(Current)
    /\ idx' = idx + 1
    /\ handled' = Handled
    /\ UNCHANGED <<fs, fs0, args, pc, listing, renamed, skipped, out, probed, plans,
                   run, call>>

\* lines 195-199
SkipAlreadyRenamed ==
    /\ pc = "loop"
    /\ idx <= Len(listing)
    /\ InScope(Current)
    /\ is_already_renamed(Current)
    /\ out' = Append(out, Line("skip_already_renamed", Current, <<>>, 0, 0))
    /\ skipped' = skipped + 1
    /\ idx' = idx + 1
    /\ handled' = Handled
    /\ UNCHANGED <<fs, fs0, args, pc, listing, renamed, probed, plans, run, call>>

\* lines 202-206 when run_ffprobe_datetime raises: nothing catches it
ProbeRaises ==
    /\ pc = "loop"
    /\ idx <= Len(listing)
    /\ InScope(Current)
    /\ ~is_already_renamed(Current)
    /\ ResolveTimestamp(FileOf(fs, Current)).out = "raise"
    /\ probed' = probed \cup {<<"exiftool", Current>>, <<"ffprobe", Current>>}
    /\ pc' = "crashed"
    /\ UNCHANGED <<fs, fs0, args, listing, idx, renamed, skipped, out, plans,
                   handled, run, call>>

\* lines 202-210 when pacific_stamp raises: astimezone cannot represent
\* the local time of an instant of the first hours of year 1
StampRaises ==
    /\ pc = "loop"
    /\ idx <= Len(listing)
    /\ InScope(Current)
    /\ ~is_already_renamed(Current)
    /\ ResolveTimestamp(FileOf(fs, Current)).out = "dt"
    /\ AstimezoneRaises(ResolveTimestamp(FileOf(fs, Current)).t)
    /\ probed' = probed \cup {<<"exiftool", Current>>, <<"ffprobe", Current>>}
    /\ pc' = "crashed"
    /\ UNCHANGED <<fs, fs0, args, listing, idx, renamed, skipped, out, plans,
                   handled, run, call>>

\* lines 202-229: classify, resolve, format, resolve collisions, then
\* rename or, under --dry-run, report
Rename ==
    /\ pc = "loop"
    /\ idx <= Len(listing)
    /\ InScope(Current)
    /\ ~is_already_renamed(Current)
    /\ ResolveTimestamp(FileOf(fs, Current)).out = "dt"
    /\ ~AstimezoneRaises(ResolveTimestamp(FileOf(fs, Current)).t)
    /\ probed' = probed \cup {<<"exiftool", Current>>, <<"ffprobe", Current>>}
    /\ LET src == Current
           dst == Destination(src)
       IN  IF src = dst
           THEN /\ out' = Append(out, Line("skip_already_named", src, <<>>, 0, 0))
                /\ skipped' = skipped + 1
                /\ UNCHANGED <<fs, renamed, plans>>
           ELSE /\ out' = Append(out, Line(IF args.dry_run THEN "dry" ELSE "rename",
                                           src, dst, 0, 0))
                /\ plans' = Append(plans, [src |-> src, dst |-> dst,
                                           names |-> DOMAIN fs,
                                           existing |-> Existing(fs),
                                           file |-> FileOf(fs, src)])
                /\ fs' = Renamed(fs, src, dst, args.dry_run)
                /\ renamed' = renamed + 1
                /\ UNCHANGED skipped
    /\ idx' = idx + 1
    /\ handled' = Handled
    /\ UNCHANGED <<fs0, args, pc, listing, run, call>>

\* lines 231-234
Summary ==
    /\ pc = "loop"
    /\ idx > Len(listing)
    /\ out' = Append(out, IF args.dry_run
                          THEN Line("dry_run_complete", <<>>, <<>>, renamed + skipped, 0)
                          ELSE Line("done", <<>>, <<>>, renamed, skipped))
    /\ pc' = "done"
    /\ UNCHANGED <<fs, fs0, args, listing, idx, renamed, skipped, probed, plans,
                   handled, run, call>>

\* the script is invoked again with the same command line on the directory
\* the previous run left
Rerun ==
    /\ pc = "done"
    /\ run < MaxRuns
    /\ run' = run + 1
    /\ pc' = "start"
    /\ fs0' = fs
    /\ listing' = <<>>
    /\ idx' = 1
    /\ renamed' = 0
    /\ skipped' = 0
    /\ out' = <<>>
    /\ probed' = {}
    /\ plans' = <<>>
    /\ handled' = <<>>
    /\ UNCHANGED <<fs, args, call>>

----------------------------------------------------------------------------
(* The inputs the model draws from.                                        *)

InstantA == Utc(2025, 3, 1, 10, 0, 0)

InstantB == Utc(2025, 7, 4, 19, 30, 0)

InstantC == Utc(2025, 8, 20, 18, 23, 45)

\* before 2007 daylight time ended on the last Sunday of October
InstantOld == Utc(2006, 10, 30, 12, 0, 0)

\* '2025-08-20T18:23:45.000000Z'
TsZulu ==
    <<"2", "0", "2", "5", "-", "0", "8", "-", "2", "0", "T", "1", "8", ":",
      "2", "3", ":", "4", "5", ".", "0", "0", "0", "0", "0", "0", "Z">>

\* '2024-12-31 23:59:59'
TsNaive ==
    <<"2", "0", "2", "4", "-", "1", "2", "-", "3", "1", " ", "2", "3", ":",
      "5", "9", ":", "5", "9">>

\* '2025-03-01T02:00:00-08:00', the instant InstantA
TsOffset ==
    <<"2", "0", "2", "5", "-", "0", "3", "-", "0", "1", "T", "0", "2", ":",
      "0", "0", ":", "0", "0", "-", "0", "8", ":", "0", "0">>

\* 'N/A'
TsJunk ==
    <<"N", "/", "A">>

\* '2025-8-21 9:05:07'
TsLoose ==
    <<"2", "0", "2", "5", "-", "8", "-", "2", "1", " ", "9", ":", "0", "5",
      ":", "0", "7">>

\* '2025-8-21T9:05:07Z'
TsLooseZulu ==
    <<"2", "0", "2", "5", "-", "8", "-", "2", "1", "T", "9", ":", "0", "5",
      ":", "0", "7", "Z">>

\* '2025-08-22'
TsDate ==
    <<"2", "0", "2", "5", "-", "0", "8", "-", "2", "2">>

\* '2025-08-22Z'
TsDateZulu ==
    <<"2", "0", "2", "5", "-", "0", "8", "-", "2", "2", "Z">>

\* '2025-08-20T18:23'
TsMinutes ==
    <<"2", "0", "2", "5", "-", "0", "8", "-", "2", "0", "T", "1", "8", ":",
      "2", "3">>

\* '20250820T182345'
TsBasic ==
    <<"2", "0", "2", "5", "0", "8", "2", "0", "T", "1", "8", "2", "3", "4",
      "5">>

\* '2025-W34-3'
TsWeek ==
    <<"2", "0", "2", "5", "-", "W", "3", "4", "-", "3">>

\* '2025-08-20 18:23:45,5+00:30'
TsComma ==
    <<"2", "0", "2", "5", "-", "0", "8", "-", "2", "0", " ", "1", "8", ":",
      "2", "3", ":", "4", "5", ",", "5", "+", "0", "0", ":", "3", "0">>

\* ' 2025-03-01T02:00:00-08:00\n', TsOffset between a space and a line feed
TsPadded ==
    <<" ", "2", "0", "2", "5", "-", "0", "3", "-", "0", "1", "T", "0", "2",
      ":", "0", "0", ":", "0", "0", "-", "0", "8", ":", "0", "0", "U+000A">>

\* '２025-08-20T18:23:45', with a fullwidth digit two
TsWide ==
    <<"U+FF12", "0", "2", "5", "-", "0", "8", "-", "2", "0", "T", "1", "8",
      ":", "2", "3", ":", "4", "5">>

\* '0001-01-01T00:00:00'
TsAncient ==
    <<"0", "0", "0", "1", "-", "0", "1", "-", "0", "1", "T", "0", "0", ":",
      "0", "0", ":", "0", "0">>

\* '9999-12-31T23:59:59-01:00', an instant after datetime.max
TsLast ==
    <<"9", "9", "9", "9", "-", "1", "2", "-", "3", "1", "T", "2", "3", ":",
      "5", "9", ":", "5", "9", "-", "0", "1", ":", "0", "0">>

TsStrings ==
    {TsZulu, TsNaive, TsOffset, TsJunk, TsLoose, TsLooseZulu, TsDate, TsDateZulu,
     TsMinutes, TsBasic, TsWeek, TsComma, TsPadded, TsWide, TsAncient, TsLast}

\* {"tags": {"creation_time": value}}
Tagged(value) == JDict(TAGS :> JDict(CREATION_TIME :> value))

\* what the prober prints for a container or a stream: an object without
\* tags, with tags that lack the field, with the field as a string, a
\* number or null, with tags that are no object, or no object at all
ContainerValues ==
    {JDict(<<>>), JDict(TAGS :> JDict(<<>>))}
        \cup {Tagged(JStr(ts)) : ts \in TsStrings}
        \cup {Tagged(JNum), Tagged(JNull)}
        \cup {JDict(TAGS :> t) : t \in {JNull, JNum, JStr(CREATION_TIME), JStr(<<"x">>),
                                        JList(<<>>), JList(<<JStr(CREATION_TIME)>>)}}
        \cup {JNull, JNum, JList(<<>>), JStr(<<"x">>)}

StreamValues ==
    {JDict(<<>>), JNum, Tagged(JNum), JDict(TAGS :> JNull)}
        \cup {Tagged(JStr(ts)) : ts \in {TsZulu, TsNaive, TsJunk, TsMinutes, TsPadded}}

\* the value of "streams": a list of streams, or something else
StreamsValues ==
    {JList(s) : s \in UNION {[1..n -> StreamValues] : n \in 0..MaxStreams}}
        \cup {JNull, JNum, JStr(<<>>), JStr(<<"a", "b">>), JDict(<<>>),
              JDict(CREATION_TIME :> JNum)}

\* the JSON values the prober prints
ProbeData ==
    {JList(<<>>), JNull, JStr(<<"x">>), JDict(<<>>)}
        \cup {JDict(FORMAT :> f) : f \in ContainerValues}
        \cup {JDict(STREAMS :> s) : s \in StreamsValues}
        \cup {JDict((FORMAT :> f) @@ (STREAMS :> s)) :
                 f \in ContainerValues, s \in StreamsValues}

ProbeError == [status |-> "error", data |-> JNull]

Json(data) == [status |-> "json", data |-> data]

ProbeOutcomes ==
    {ProbeError, [ProbeError EXCEPT !.status = "malformed"]}
        \cup {Json(d) : d \in ProbeData}

ExifError == [status |-> "error", Make |-> Absent, Model |-> Absent,
              AndroidMake |-> Absent, AndroidModel |-> Absent]

MakeValues == {Absent, Other, Str(<<"A", "p", "p", "l", "e">>), Str(APPLE),
               Str(<<"G", "o", "o", "g", "l", "e">>),
               Str(<<"s", "a", "m", "s", "u", "n", "g">>)}

ModelValues == {Absent, Other, Str(<<"i", "P", "h", "o", "n", "e", " ", "1", "5">>),
                Str(<<"P", "i", "x", "e", "l", " ", "8">>),
                Str(<<"S", "M", "-", "G", "9", "9", "1">>)}

AndroidMakeValues == {Absent, Other, Str(<<>>), Str(<<"G", "o", "o", "g", "l", "e">>)}

AndroidModelValues == {Absent, Other, Str(<<"P", "i", "x", "e", "l", " ", "8">>)}

ExifOutcomes ==
    {[ExifError EXCEPT !.status = st] : st \in {"error", "malformed", "empty", "nondict"}}
    \cup [status : {"ok"}, Make : MakeValues, Model : ModelValues,
          AndroidMake : AndroidMakeValues, AndroidModel : AndroidModelValues]

ExifApple == [ExifError EXCEPT !.status = "ok",
                               !.Make = Str(<<"A", "p", "p", "l", "e">>),
                               !.Model = Str(<<"i", "P", "h", "o", "n", "e", " ", "1", "5">>)]

ExifPixel == [ExifError EXCEPT !.status = "ok",
                               !.AndroidModel = Str(<<"P", "i", "x", "e", "l", " ", "8">>)]

\* The files of the main specification: what the utilities say about each.
RegularFile(mtime, exif, ffprobe) ==
    [kind |-> "file", target |-> <<>>, mtime |-> mtime, exif |-> exif,
     ffprobe |-> ffprobe]

FilePlain == RegularFile(InstantA, ExifError, ProbeError)

FileApple ==
    RegularFile(InstantB, ExifApple, Json(JDict(FORMAT :> Tagged(JStr(TsOffset)))))

FilePixel ==
    RegularFile(InstantB, ExifPixel,
                Json(JDict(STREAMS :> JList(<<Tagged(JStr(TsPadded))>>))))

FileLate ==
    RegularFile(InstantOld, ExifError, Json(JDict(FORMAT :> Tagged(JStr(TsJunk)))))

\* {"streams": [5]}
FileBroken == RegularFile(InstantA, ExifApple, Json(JDict(STREAMS :> JList(<<JNum>>))))

FileMinutes ==
    RegularFile(InstantA, ExifError,
                Json(JDict((FORMAT :> Tagged(JStr(TsMinutes)))
                           @@ (STREAMS :> JList(<<Tagged(JStr(TsZulu))>>)))))

FileAncient ==
    RegularFile(InstantA, ExifError, Json(JDict(FORMAT :> Tagged(JStr(TsAncient)))))

Subdirectory == [RegularFile(InstantA, ExifError, ProbeError) EXCEPT !.kind = "dir"]

\* a symbolic link to the name target of the directory
LinkTo(target) ==
    [RegularFile(InstantA, ExifError, ProbeError) EXCEPT !.kind = "link",
                                                         !.target = target]

NameA == <<"a">> \o DotMov

NameB == <<"b", ".", "M", "O", "V">>

NameC == <<"c">> \o DotMov

NameD == <<"d">> \o DotMp4

NameL == <<"l">> \o DotMov

\* a name that no directory of the model holds
NameGone == <<"g", "o", "n", "e">>

NameCanonUpper ==
    pacific_stamp(InstantA) \o <<"-", "I", "P", "H", "O", "N", "E", ".", "M", "O", "V">>

NameCanonLower == pacific_stamp(InstantA) \o <<"-">> \o IPHONE \o DotMov

\* the name of InstantA with a fullwidth digit two and a dotless i
NameCanonWide ==
    <<"U+FF12">> \o SubSeq(pacific_stamp(InstantA), 2, 15)
        \o <<"-", "U+0131", "p", "h", "o", "n", "e">> \o DotMov

NameCustom == pacific_stamp(InstantA) \o <<"-", "x">> \o DotMov

NameTxt == <<"n", ".", "t", "x", "t">>

PoolNames == {NameA, NameB, NameC, NameD, NameL, NameCanonUpper, NameCanonLower,
              NameCanonWide, NameCustom, NameTxt}

\* NameCanonLower is a symbolic link whose target is missing, NameL one to
\* NameA or to NameCanonLower, and NameA may be one to NameB, a name the
\* loop reaches after it
Pool(name) ==
    IF name = NameA THEN {FilePlain, FilePixel, FileBroken, LinkTo(NameB)}
    ELSE IF name = NameB THEN {FilePlain, FileLate, Subdirectory}
    ELSE IF name = NameC THEN {FilePlain, FileAncient}
    ELSE IF name = NameD THEN {FileApple, FileMinutes}
    ELSE IF name = NameL THEN {LinkTo(NameA), LinkTo(NameCanonLower)}
    ELSE IF name = NameCanonUpper THEN {FilePixel}
    ELSE IF name = NameCanonLower THEN {LinkTo(NameGone)}
    ELSE {FilePlain}

\* An entry of the directory: what is stored, and the name it had at first.
Entry(name, f) == [orig |-> name, kind |-> f.kind, target |-> f.target,
                   mtime |-> f.mtime, exif |-> f.exif, ffprobe |-> f.ffprobe]

\* the directories that hold the names ns
RECURSIVE DirectoriesOf(_)
DirectoriesOf(ns) ==
    IF ns = {} THEN {<<>>}
    ELSE LET n == CHOOSE x \in ns : TRUE
         IN  {d @@ (n :> Entry(n, f)) : d \in DirectoriesOf(ns \ {n}), f \in Pool(n)}

Directories ==
    UNION {DirectoriesOf(ns) : ns \in {x \in SUBSET PoolNames : Cardinality(x) <= MaxFiles}}

DefaultArgs == [is_dir |-> TRUE, dry_run |-> FALSE,
                iphone_prefix |-> IPHONE, android_prefix |-> ANDROID]

ArgsSet == {DefaultArgs,
            [DefaultArgs EXCEPT !.dry_run = TRUE],
            [DefaultArgs EXCEPT !.iphone_prefix = <<"x">>,
                                !.android_prefix = <<"x", "-", "1">>]}

ClassifyPaths == {NameA, NameB, NameD, <<"h">> \o DotHeic, <<"j">> \o DotJpg,
                  <<"k", ".", "J", "P", "E", "G">>}

NoCall == [fn |-> "none"]

----------------------------------------------------------------------------
(* The specification of the script: any number of runs on one directory.   *)

Idle ==
    /\ listing = <<>>
    /\ idx = 1
    /\ renamed = 0
    /\ skipped = 0
    /\ out = <<>>
    /\ probed = {}
    /\ plans = <<>>
    /\ handled = <<>>
    /\ run = 1

Init ==
    /\ Idle
    /\ pc = "start"
    /\ call = NoCall
    /\ \/ args \in ArgsSet /\ fs \in Directories
       \/ args = [DefaultArgs EXCEPT !.is_dir = FALSE] /\ fs = <<>>
    /\ fs0 = fs

Next ==
    \/ NotADirectory
    \/ ListDirectory
    \/ Continue
    \/ SkipAlreadyRenamed
    \/ ProbeRaises
    \/ StampRaises
    \/ Rename
    \/ Summary
    \/ Rerun

Spec == Init /\ [][Next]_vars

----------------------------------------------------------------------------
(* The classifier alone, on every outcome of the metadata extractor.       *)

InitClassify ==
    /\ Idle
    /\ pc = "idle"
    /\ fs = <<>>
    /\ fs0 = <<>>
    /\ args = DefaultArgs
    /\ call \in [fn : {"detect_device_from_metadata"}, path : ClassifyPaths,
                 exif : ExifOutcomes, returned : {FALSE}, ret : {"none"}]

Classify ==
    /\ call.fn = "detect_device_from_metadata"
    /\ ~call.returned
    /\ call' = [call EXCEPT !.returned = TRUE,
                            !.ret = detect_device_from_metadata(call.path, call.exif)]
    /\ UNCHANGED <<fs, fs0, args, pc, listing, idx, renamed, skipped, out, probed,
                   plans, handled, run>>

SpecClassify == InitClassify /\ [][Classify]_vars

----------------------------------------------------------------------------
(* The timestamp resolver alone, on every outcome of the media prober.     *)

InitResolve ==
    /\ Idle
    /\ pc = "idle"
    /\ fs = <<>>
    /\ fs0 = <<>>
    /\ args = DefaultArgs
    /\ call \in [fn : {"resolve"},
                 file : {Entry(NameA, RegularFile(mtime, ExifError, probe)) :
                            mtime \in {InstantA, InstantB}, probe \in ProbeOutcomes},
                 returned : {FALSE},
                 ret : {[out |-> "none", t |-> NoInstant, from |-> "none"]}]

Resolve ==
    /\ call.fn = "resolve"
    /\ ~call.returned
    /\ call' = [call EXCEPT !.returned = TRUE, !.ret = ResolveTimestamp(call.file)]
    /\ UNCHANGED <<fs, fs0, args, pc, listing, idx, renamed, skipped, out, probed,
                   plans, handled, run>>

SpecResolve == InitResolve /\ [][Resolve]_vars

----------------------------------------------------------------------------
(* Vocabulary of the properties.                                           *)

\* the candidate base name of a decided rename: stamp, hyphen, prefix
PlanBase(p) ==
    pacific_stamp(ResolveTimestamp(p.file).t) \o <<"-">>
        \o Prefix(detect_device_from_metadata(p.src, p.file.exif))

PlanExt(p) == Lower(splitext(p.src))

\* n is base-<i>ext for some i >= 1
IsSuffixed(n, base, ext) ==
    LET lo == Len(base) + 2
        hi == Len(n) - Len(ext)
    IN  /\ lo <= hi
        /\ SubSeq(n, 1, Len(base)) = base
        /\ n[Len(base) + 1] = "-"
        /\ \A i \in lo..hi : n[i] \in AsciiDigit
        /\ n[lo] # "0"
        /\ SubSeq(n, hi + 1, Len(n)) = ext

\* n is base.ext or base-<i>.ext
InFamily(n, base, ext) == n = base \o ext \/ IsSuffixed(n, base, ext)

SameTarget(p, q) == PlanBase(p) = PlanBase(q) /\ PlanExt(p) = PlanExt(q)

\* c is the letter or sign l in either case; the dotted capital I and the
\* dotless small i count as cases of i
SameLetter(c, l) ==
    \/ c = l
    \/ \E k \in 1..26 : l = LowerAlpha[k] /\ c = UpperAlpha[k]
    \/ l = "i" /\ c \in {"U+0130", "U+0131"}

\* the canonical pattern: 8 decimal digits, hyphen, 6 decimal digits,
\* hyphen, iphone or android, a recognised extension, letters in either
\* case
Canonical(n) ==
    \E dev \in {IPHONE, ANDROID} : \E e \in FILE_EXTS :
        /\ Len(n) = 16 + Len(dev) + Len(e)
        /\ \A i \in (1..8) \cup (10..15) :
               n[i] \in {Digits[k] : k \in 1..10} \cup {"U+0663", "U+FF12"}
        /\ n[9] = "-" /\ n[16] = "-"
        /\ \A i \in 1..Len(dev \o e) : SameLetter(n[16 + i], (dev \o e)[i])

\* the names the loop has passed that were in scope (a regular file, also
\* through a symbolic link, of a recognised extension) at their turn
PassedInScope == {handled[i].name : i \in {j \in 1..Len(handled) : handled[j].inscope}}

\* the names that were in scope in the directory the run started with
InScope0 ==
    {n \in DOMAIN fs0 : /\ exists(fs0, n)
                        /\ FileOf(fs0, n).kind = "file"
                        /\ Lower(splitext(n)) \in FILE_EXTS}

SkipLines(kind) == {i \in 1..Len(out) : out[i].kind = kind}

\* The creation_time strings of the inputs and what each denotes: whether
\* it is a timestamp the parser accepts, and the UTC instant.
Denotes(text, ok, t) == [text |-> text, ok |-> ok, t |-> t]

Denotations ==
    {Denotes(TsZulu, TRUE, Utc(2025, 8, 20, 18, 23, 45)),
     Denotes(TsNaive, TRUE, Utc(2024, 12, 31, 23, 59, 59)),
     Denotes(TsOffset, TRUE, Utc(2025, 3, 1, 10, 0, 0)),
     Denotes(TsJunk, FALSE, NoInstant),
     Denotes(TsLoose, TRUE, Utc(2025, 8, 21, 9, 5, 7)),
     Denotes(TsLooseZulu, FALSE, NoInstant),
     Denotes(TsDate, TRUE, Utc(2025, 8, 22, 0, 0, 0)),
     Denotes(TsDateZulu, TRUE, Utc(2025, 8, 22, 0, 0, 0)),
     Denotes(TsMinutes, TRUE, Utc(2025, 8, 20, 18, 23, 0)),
     Denotes(TsBasic, TRUE, Utc(2025, 8, 20, 18, 23, 45)),
     Denotes(TsWeek, TRUE, Utc(2025, 8, 20, 0, 0, 0)),
     Denotes(TsComma, TRUE, Utc(2025, 8, 20, 17, 53, 45)),
     Denotes(TsPadded, TRUE, Utc(2025, 3, 1, 10, 0, 0)),
     Denotes(TsWide, TRUE, Utc(2025, 8, 20, 18, 23, 45)),
     Denotes(TsAncient, TRUE, Utc(1, 1, 1, 0, 0, 0)),
     Denotes(TsLast, FALSE, NoInstant)}

Denotation(text) == CHOOSE d \in Denotations : d.text = text

\* the prober's output has the shape the prober gives it: an object whose
\* format, when present, is an object, whose streams, when present, are a
\* list of objects, the tags of each, when present, being an object
Shaped(data) ==
    LET holder(h) == h.k = "dict" /\ (TAGS \in DOMAIN h.v => h.v[TAGS].k = "dict")
    IN  /\ data.k = "dict"
        /\ FORMAT \in DOMAIN data.v => holder(data.v[FORMAT])
        /\ STREAMS \in DOMAIN data.v =>
               /\ data.v[STREAMS].k = "list"
               /\ \A i \in 1..Len(data.v[STREAMS].v) : holder(data.v[STREAMS].v[i])

\* the creation_time values of shaped output: the container's, then the
\* streams' in stream order
RECURSIVE TagsInOrder(_)
TagsInOrder(holders) ==
    IF holders = <<>> THEN <<>>
    ELSE LET h == Head(holders)
         IN  (IF TAGS \in DOMAIN h.v /\ CREATION_TIME \in DOMAIN h.v[TAGS].v
              THEN <<h.v[TAGS].v[CREATION_TIME]>>
              ELSE <<>>) \o TagsInOrder(Tail(holders))

Written(data) ==
    TagsInOrder((IF FORMAT \in DOMAIN data.v THEN <<data.v[FORMAT]>> ELSE <<>>)
                \o (IF STREAMS \in DOMAIN data.v THEN data.v[STREAMS].v ELSE <<>>))

----------------------------------------------------------------------------
(* C1.  In any single run, dry or real, the destination of every decided   *)
(* rename differs from every name existing in the directory at that moment *)
(* and from every destination decided earlier in the same run.             *)
C1_DestinationUniqueAtPlanTime ==
    \A k \in 1..Len(plans) :
        /\ plans[k].dst \notin plans[k].names
        /\ \A j \in 1..(k - 1) : plans[j].dst # plans[k].dst

(* C2 as stated.  In a run that performs renames over a directory holding  *)
(* no base.ext and no base-<i>.ext at the start, the files of one          *)
(* extension that resolve to the same base name are taken in sorted order  *)
(* and get base.ext, base-1.ext, base-2.ext, ...                           *)
C2_CollidersNumberedInOrder ==
    ~args.dry_run =>
        \A k \in 1..Len(plans) :
            LET p    == plans[k]
                base == PlanBase(p)
                ext  == PlanExt(p)
                r    == Cardinality({j \in 1..(k - 1) : SameTarget(plans[j], p)})
                several == \E j \in 1..Len(plans) : j # k /\ SameTarget(plans[j], p)
            IN  /\ \A j \in 1..(k - 1) : StrLess(plans[j].src, p.src)
                /\ (several /\ \A n \in DOMAIN fs0 : ~InFamily(n, base, ext)) =>
                       p.dst = IF r = 0 THEN base \o ext ELSE Candidate(base, r, ext)

\* the directory the run started with holds regular files and
\* subdirectories only
NoLinks == \A n \in DOMAIN fs0 : fs0[n].kind # "link"

(* C2 as amended.  As stated, with two conditions added: no file that      *)
(* resolves to another base name has been renamed to base.ext or to a      *)
(* base-<i>.ext earlier in the run, and the directory holds no symbolic    *)
(* links.  Then the files of one extension that resolve to the same base   *)
(* name, taken in sorted order, get base.ext, base-1.ext, base-2.ext, ...  *)
(* In a directory without symbolic links the suffix a file gets is always  *)
(* the least i >= 1 whose name is unused.                                  *)
C2_CollidersGetLeastUnusedSuffix ==
    ~args.dry_run =>
        \A k \in 1..Len(plans) :
            LET p     == plans[k]
                base  == PlanBase(p)
                ext   == PlanExt(p)
                r     == Cardinality({j \in 1..(k - 1) : SameTarget(plans[j], p)})
                several == \E j \in 1..Len(plans) : j # k /\ SameTarget(plans[j], p)
                alien == \E j \in 1..(k - 1) :
                             /\ ~SameTarget(plans[j], p)
                             /\ InFamily(plans[j].dst, base, ext)
            IN  /\ \A j \in 1..(k - 1) : StrLess(plans[j].src, p.src)
                /\ (/\ several
                    /\ \A n \in DOMAIN fs0 : ~InFamily(n, base, ext)
                    /\ ~alien
                    /\ NoLinks) =>
                       p.dst = IF r = 0 THEN base \o ext ELSE Candidate(base, r, ext)
                /\ NoLinks =>
                       /\ InFamily(p.dst, base, ext)
                       /\ p.dst \notin p.names
                       /\ p.dst # base \o ext => (base \o ext) \in p.names
                       /\ \A i \in 1..(Cardinality(p.names) + 1) :
                              p.dst = Candidate(base, i, ext)
                                  => \A j \in 1..(i - 1) : Candidate(base, j, ext) \in p.names

\* three files of one base name and extension were renamed, the third to
\* base-2.ext, in a directory of regular files that held none of the names
\* at the start
C2_Witness ==
    /\ ~args.dry_run
    /\ NoLinks
    /\ Len(plans) = 3
    /\ SameTarget(plans[1], plans[2]) /\ SameTarget(plans[2], plans[3])
    /\ \A n \in DOMAIN fs0 : ~InFamily(n, PlanBase(plans[1]), PlanExt(plans[1]))
    /\ plans[2].dst = Candidate(PlanBase(plans[1]), 1, DotMov)
    /\ plans[3].dst = Candidate(PlanBase(plans[1]), 2, DotMov)
    /\ plans[3].dst \in DOMAIN fs

(* C3.  A run with --dry-run leaves the directory unchanged: the names and *)
(* the file each name denotes are those the run started with.              *)
C3_DryRunLeavesDirectory == args.dry_run => fs = fs0

\* a dry run has finished after reporting two renames
C3_Witness ==
    /\ args.dry_run
    /\ pc = "done"
    /\ renamed >= 2
    /\ \E i \in 1..Len(out) : out[i].kind = "dry"

(* C4.  A file whose name matches the canonical pattern is never handed to *)
(* exiftool or ffprobe; when it is in scope at its turn it is reported as  *)
(* skipped and counted as skipped, and it keeps its name: no rename has it *)
(* as its source, and a regular file stays what it was.                    *)
C4_CanonicalFilesAreSkipped ==
    LET canon == {n \in PassedInScope : Canonical(n)}
    IN  /\ \A n \in DOMAIN fs0 :
               Canonical(n) =>
                   /\ <<"exiftool", n>> \notin probed
                   /\ <<"ffprobe", n>> \notin probed
                   /\ \A k \in 1..Len(plans) : plans[k].src # n
                   /\ fs0[n].kind = "file" => (n \in DOMAIN fs /\ fs[n] = fs0[n])
        /\ \A n \in canon :
               \E i \in SkipLines("skip_already_renamed") : out[i].src = n
        /\ skipped >= Cardinality(canon)
        /\ \A n \in InScope0 : (Canonical(n) /\ fs0[n].kind = "file" /\ pc = "done")
                                   => n \in canon

\* a run has finished that skipped the upper-case canonical name, whose
\* file carries Android metadata, and the canonical name written with a
\* fullwidth digit and a dotless i, and renamed another file
C4_Witness ==
    /\ pc = "done"
    /\ NameCanonUpper \in DOMAIN fs0
    /\ fs0[NameCanonUpper].exif = ExifPixel
    /\ \E i \in SkipLines("skip_already_renamed") : out[i].src = NameCanonUpper
    /\ \E i \in SkipLines("skip_already_renamed") : out[i].src = NameCanonWide
    /\ skipped = 2
    /\ renamed >= 1

(* C5.  Any failure of an external utility, malformed or unexpectedly      *)
(* shaped output included, is treated as no data: the device comes from    *)
(* the extension, the timestamp from the modification time, and no         *)
(* exception of the timestamp resolver ends the run.                       *)
C5_UtilityFailuresAreNoData ==
    /\ pc = "crashed" => ResolveTimestamp(FileOf(fs, Current)).out # "raise"
    /\ \A k \in 1..Len(plans) :
           LET f == plans[k].file
           IN  /\ f.exif.status # "ok" =>
                      PlanBase(plans[k]) =
                          pacific_stamp(ResolveTimestamp(f).t) \o <<"-">>
                              \o Prefix(DetectByExtension(plans[k].src))
               /\ f.ffprobe.status # "json" =>
                      ResolveTimestamp(f) =
                          [out |-> "dt", t |-> f.mtime, from |-> "mtime"]

(* C6.  The timestamp of a file is the first creation_time that parses,   *)
(* the container's being tried before the streams' and these in stream     *)
(* order, read as UTC when it carries no offset; later candidates are      *)
(* ignored; the modification time is used only when the prober fails or    *)
(* no candidate parses.  The resolver raises only on output of another     *)
(* shape than the prober's or on a candidate that is no string (the case   *)
(* of C5).                                                                 *)
C6_FirstParsableCandidateWins ==
    (call.fn = "resolve" /\ call.returned) =>
        LET probe     == call.file.ffprobe
            shaped    == probe.status = "json" /\ Shaped(probe.data)
            tags      == IF shaped THEN Written(probe.data) ELSE <<>>
            n         == Len(tags)
            parses(i) == tags[i].k = "str" /\ Denotation(tags[i].v).ok
            first(i)  == parses(i) /\ \A j \in 1..(i - 1) : ~parses(j)
            noData    == \A i \in 1..n : ~parses(i)
        IN  /\ call.ret.out \in {"dt", "raise"}
            /\ call.ret.out = "dt" => call.ret.from \in {"metadata", "mtime"}
            /\ probe.status # "json" =>
                   call.ret = [out |-> "dt", t |-> call.file.mtime, from |-> "mtime"]
            /\ shaped =>
                   /\ call.ret.out = "raise" <=>
                          \E i \in 1..n :
                              tags[i].k # "str" /\ \A j \in 1..(i - 1) : ~parses(j)
                   /\ (call.ret.out = "dt" /\ call.ret.from = "metadata") =>
                          \E i \in 1..n : first(i) /\ call.ret.t = Denotation(tags[i].v).t
                   /\ (call.ret.out = "dt" /\ call.ret.from = "mtime") =>
                          noData /\ call.ret.t = call.file.mtime
                   /\ (call.ret.out = "dt" /\ noData) => call.ret.from = "mtime"

\* the container tag does not parse, the first stream's tag carries no
\* offset and is returned as UTC, the second stream's tag is ignored
C6_Witness ==
    /\ call.fn = "resolve" /\ call.returned
    /\ call.file.ffprobe =
           Json(JDict((FORMAT :> Tagged(JStr(TsJunk)))
                      @@ (STREAMS :> JList(<<Tagged(JStr(TsNaive)),
                                             Tagged(JStr(TsZulu))>>))))
    /\ call.ret = [out |-> "dt", t |-> Utc(2024, 12, 31, 23, 59, 59),
                   from |-> "metadata"]

(* C7.  The classifier applies its rules in order: with readable metadata, *)
(* Make equal to apple or Model containing iphone (case-insensitive) gives *)
(* iphone, even with Android fields present; otherwise a non-empty         *)
(* AndroidMake or AndroidModel, Make equal to google or Model containing   *)
(* pixel gives android; otherwise, and when the metadata is unreadable,    *)
(* .mov and .heic give iphone and every other extension android.           *)
C7_ClassifierRulesInOrder ==
    (call.fn = "detect_device_from_metadata" /\ call.returned) =>
        LET e        == call.exif
            readable == /\ e.status = "ok"
                        /\ \A f \in {e.Make, e.Model, e.AndroidMake, e.AndroidModel} :
                               f.t \in {"absent", "str"}
            low(f)   == IF f.t = "str" THEN Lower(f.v) ELSE <<>>
            apple    == readable /\ (low(e.Make) = APPLE \/ Contains(low(e.Model), IPHONE))
            android  == /\ readable
                        /\ ~apple
                        /\ \/ low(e.AndroidMake) # <<>>
                           \/ low(e.AndroidModel) # <<>>
                           \/ low(e.Make) = GOOGLE
                           \/ Contains(low(e.Model), PIXEL)
            ext      == Lower(splitext(call.path))
        IN  /\ apple => call.ret = "iphone"
            /\ android => call.ret = "android"
            /\ (~apple /\ ~android) =>
                   call.ret = IF ext = DotMov \/ ext = DotHeic THEN "iphone" ELSE "android"

\* an .mp4 whose Make is Apple and whose AndroidModel is set is an iphone
C7_Witness ==
    /\ call.fn = "detect_device_from_metadata" /\ call.returned
    /\ call.path = NameD
    /\ call.exif.status = "ok"
    /\ call.exif.Make = Str(<<"A", "p", "p", "l", "e">>)
    /\ call.exif.AndroidModel = Str(<<"P", "i", "x", "e", "l", " ", "8">>)
    /\ call.exif.Model = Absent
    /\ call.ret = "iphone"

(* C8.  In a run that performs renames, every rename goes to a name that   *)
(* does not exist at that moment, every listed name still exists when its  *)
(* turn comes, and no file is overwritten or lost: the directory holds as  *)
(* many files as at the start, each under exactly one name.                *)
C8_NoFileOverwrittenOrLost ==
    ~args.dry_run =>
        /\ \A k \in 1..Len(plans) : plans[k].dst \notin plans[k].names
        /\ (pc = "loop" /\ idx <= Len(listing)) => listing[idx] \in DOMAIN fs
        /\ Cardinality(DOMAIN fs) = Cardinality(DOMAIN fs0)
        /\ \A o \in DOMAIN fs0 :
               /\ Cardinality({n \in DOMAIN fs : fs[n].orig = fs0[o].orig}) = 1
               /\ \A n \in DOMAIN fs :
                      fs[n].orig = fs0[o].orig => fs[n] = fs0[o]

(* C9.  After one run that performs renames with the default prefixes, a   *)
(* second run with the same options renames no file and reports every      *)
(* in-scope file as skipped, files with a numeric suffix included.         *)
C9_SecondRunRenamesNothing ==
    (/\ run = 2
     /\ pc = "done"
     /\ ~args.dry_run
     /\ args.iphone_prefix = IPHONE
     /\ args.android_prefix = ANDROID) =>
        /\ renamed = 0
        /\ plans = <<>>
        /\ skipped = Cardinality(InScope0)

(* C10.  The destination of an in-scope file never equals its source, so   *)
(* the "already named" branch is never taken: every file in scope at its   *)
(* turn that does not match the canonical pattern is renamed, or reported  *)
(* in a dry run, and counted as renamed; a file whose name is already      *)
(* base.ext for its timestamp and prefix gets a numeric suffix.            *)
C10_AlreadyNamedBranchNeverTaken ==
    /\ SkipLines("skip_already_named") = {}
    /\ \A k \in 1..Len(plans) :
           /\ plans[k].dst # plans[k].src
           /\ plans[k].src = PlanBase(plans[k]) \o PlanExt(plans[k]) =>
                  IsSuffixed(plans[k].dst, PlanBase(plans[k]), PlanExt(plans[k]))
    /\ pc \in {"loop", "done", "crashed"} =>
           /\ renamed = Len(plans)
           /\ \A n \in PassedInScope :
                  ~Canonical(n) =>
                      /\ \E k \in 1..Len(plans) : plans[k].src = n
                      /\ \E i \in SkipLines(IF args.dry_run THEN "dry" ELSE "rename") :
                             out[i].src = n /\ out[i].dst # n

\* with the prefix x, the file already called <stamp>-x.mov for its own
\* timestamp was renamed to <stamp>-x-1.mov
C10_Witness ==
    /\ args.iphone_prefix = <<"x">>
    /\ \E k \in 1..Len(plans) :
           /\ plans[k].src = NameCustom
           /\ plans[k].src = PlanBase(plans[k]) \o DotMov
           /\ plans[k].dst = Candidate(PlanBase(plans[k]), 1, DotMov)
    /\ NameCustom \notin DOMAIN fs
    /\ renamed >= 1

====
